---- MODULE Spec2Model ----
(***************************************************************************)
(* nazpar-backend (src/server.js): an express relay with one chat endpoint. *)
(* A request runs through the middleware chain (cors, rate limiter), the   *)
(* route handler validates the body, builds the upstream payload, awaits   *)
(* fetch, awaits the upstream body and answers the client.                 *)
(***************************************************************************)
EXTENDS Integers, Sequences, FiniteSets, TLC

(***************************************************************************)
(* Bounds of the model.                                                    *)
(***************************************************************************)
\* connections handled concurrently
MaxInflight == 2
\* Spec: requests one client sends to /v1/ within one limiter window
MaxBurst == 2
\* SpecLimit: requests a client sends beyond the limiter's max in one window
MaxOver == 1

(***************************************************************************)
(* JSON values.  A string carries its length, so that an 8000 character    *)
(* content is a value of the model: S(v, n) is a string of n characters.   *)
(***************************************************************************)
Undef == [t |-> "undefined"]
Null == [t |-> "null"]
S(v, n) == [t |-> "str", v |-> v, len |-> n]
\* the number m * 10^(-e)
Dec(m, e) == [t |-> "num", m |-> m, e |-> e]
Num(n) == Dec(n, 0)
Obj(f) == [t |-> "obj", f |-> f]
Arr(s) == [t |-> "arr", v |-> s]
EmptyObj == Obj(<<>>)

\* x?.k
Get(x, k) == IF x.t = "obj" /\ k \in DOMAIN x.f THEN x.f[k] ELSE Undef
\* x?.[0]
First(x) == IF x.t = "arr" /\ Len(x.v) > 0 THEN x.v[1] ELSE Undef
\* JavaScript truthiness, as used by || and !
Truthy(x) ==
  CASE x.t = "undefined" -> FALSE
    [] x.t = "null" -> FALSE
    [] x.t = "str" -> x.len > 0
    [] x.t = "num" -> x.m # 0
    [] OTHER -> TRUE

(***************************************************************************)
(* Environment: ALLOWED_ORIGINS and OPENAI_API_KEY.  An origin and the     *)
(* variable's value are sequences of characters; an absent Origin header   *)
(* and an unset variable are the empty sequence (both are falsy).          *)
(***************************************************************************)
RECURSIVE Split(_, _)
\* str.split(','): acc is the piece being read
Split(str, acc) ==
  IF str = <<>> THEN <<acc>>
  ELSE IF Head(str) = "," THEN <<acc>> \o Split(Tail(str), <<>>)
  ELSE Split(Tail(str), Append(acc, Head(str)))

RECURSIVE TrimLeft(_)
TrimLeft(s) == IF s # <<>> /\ Head(s) = " " THEN TrimLeft(Tail(s)) ELSE s

RECURSIVE TrimRight(_)
TrimRight(s) ==
  IF s # <<>> /\ s[Len(s)] = " " THEN TrimRight(SubSeq(s, 1, Len(s) - 1)) ELSE s

\* s.trim()
Trim(s) == TrimRight(TrimLeft(s))

\* .filter(Boolean) on an array of strings
FilterNonEmpty(seq) == SelectSeq(seq, LAMBDA x : x # <<>>)

\* (process.env.ALLOWED_ORIGINS || '').split(',').map(s => s.trim()).filter(Boolean)
ParseAllowed(raw) ==
  LET parts == Split(raw, <<>>)
  IN FilterNonEmpty([i \in 1..Len(parts) |-> Trim(parts[i])])

Includes(seq, x) == \E i \in 1..Len(seq) : seq[i] = x

\* the cors origin callback: TRUE is cb(null, true), FALSE is cb(new Error('CORS blocked'))
\* (faulty variant: the list is consulted for its length only)
CorsAllowsNoCheck(list, origin) ==
  IF origin = <<>> THEN TRUE
  ELSE IF Len(list) = 0 \/ Len(list) > 0 THEN TRUE
  ELSE FALSE
CorsAllows(list, origin) ==
  IF origin = <<>> THEN TRUE
  ELSE IF Len(list) = 0 \/ Includes(list, origin) THEN TRUE
  ELSE FALSE

(***************************************************************************)
(* Rate limiter configuration and chat schema.                             *)
(***************************************************************************)
max == 60
MinContent == 1
MaxContent == 8000

Roles == {"system", "user", "assistant"}

\* (faulty variant: no .max(8000))
ValidMessageNoMax(m) ==
  /\ m.t = "obj"
  /\ Get(m, "role").t = "str" /\ Get(m, "role").v \in Roles
  /\ Get(m, "content").t = "str"
  /\ Get(m, "content").len >= MinContent
\* z.object({role: z.enum([...]), content: z.string().min(1).max(8000)})
ValidMessage(m) ==
  /\ m.t = "obj"
  /\ Get(m, "role").t = "str" /\ Get(m, "role").v \in Roles
  /\ Get(m, "content").t = "str"
  /\ Get(m, "content").len >= MinContent
  /\ Get(m, "content").len <= MaxContent

\* ChatSchema.safeParse(body).success
SchemaAccepts(body) ==
  /\ body.t = "obj"
  /\ Get(body, "messages").t = "arr"
  /\ Len(Get(body, "messages").v) >= 1
  /\ \A i \in 1..Len(Get(body, "messages").v) : ValidMessage(Get(body, "messages").v[i])
  /\ Get(body, "model").t \in {"undefined", "str"}

\* zod objects strip the keys the schema does not name
ParsedMessage(m) == Obj([role |-> Get(m, "role"), content |-> Get(m, "content")])
\* parsed.data.messages
ParsedMessages(body) ==
  [i \in 1..Len(Get(body, "messages").v) |-> ParsedMessage(Get(body, "messages").v[i])]

(***************************************************************************)
(* State.                                                                  *)
(***************************************************************************)
VARIABLES
  apiKey,   \* process.env.OPENAI_API_KEY
  allowed,  \* the origin allow-list parsed at start-up
  hits,     \* the limiter's store: requests counted per client in its window
  passed,   \* per client: requests that entered the chat handler in its window
  called,   \* per client: upstream calls made for its requests of its window
  conn      \* per connection: the request, the handler's position, the response

vars == <<apiKey, allowed, hits, passed, called, conn>>

Slots == 1..MaxInflight
Clients == {"c1", "c2"}

None == [t |-> "none"]
\* a connection slot nobody uses
Idle ==
  [pc |-> "idle", req |-> None, reached |-> FALSE,
   calls |-> 0, payload |-> None, upStatus |-> 0, upBody |-> None,
   sent |-> 0, res |-> None]

\* an accepted connection carrying a request
Connect(req) == [Idle EXCEPT !.pc = "recv", !.req = req]

\* res.status(status).json(body): one more response on the connection
Respond(r, status, body) ==
  [r EXCEPT !.pc = "done", !.sent = @ + 1, !.res = [status |-> status, body |-> body]]

\* fetch(url, {body: JSON.stringify(payload)}) and the await on it
CallUpstream(r, payload) ==
  [r EXCEPT !.pc = "fetch", !.calls = @ + 1, !.payload = payload]

(***************************************************************************)
(* The chat handler up to its first await.                                 *)
(***************************************************************************)
DefaultModel == S("gpt-4o-mini", 11)
\* temperature: 0.6
Temperature == Dec(6, 1)

systemPrefix ==
  Obj([role |-> S("system", 6),
       content |-> S("You are Nazpar, a world-class Persian assistant for brand 'Javad&Yavar Design'. Be warm, concise, and helpful. Answer in Persian (fa) by default. If user requests code, return minimal, correct, production-ready code.", 216)])

\* (faulty variant: ?? in place of ||, an empty model is forwarded)
ModelOfNullish(body) ==
  IF Get(body, "model").t \notin {"undefined", "null"} THEN Get(body, "model") ELSE DefaultModel
\* req.body.model || 'gpt-4o-mini'
ModelOf(body) ==
  IF Truthy(Get(body, "model")) THEN Get(body, "model") ELSE DefaultModel

\* (faulty variant: the client's own system messages are filtered out)
PayloadMessagesNoClientSystem(body) ==
  <<systemPrefix>> \o SelectSeq(ParsedMessages(body), LAMBDA m : Get(m, "role").v # "system")
\* [systemPrefix, ...parsed.data.messages]
PayloadMessages(body) == <<systemPrefix>> \o ParsedMessages(body)

\* (faulty variant: the messages are kept in a variable of the module, so a
\* request is sent with those of a request still awaiting its fetch)
BuildPayloadShared(body) ==
  LET waiting == {s \in Slots : conn[s].pc = "fetch"}
      kept == IF waiting = {} THEN body ELSE conn[CHOOSE s \in waiting : TRUE].req.body
  IN Obj([model |-> ModelOf(body),
          messages |-> Arr(PayloadMessages(kept)),
          temperature |-> Temperature])
\* const payload = {model, messages: [...], temperature: 0.6}
BuildPayload(body) ==
  Obj([model |-> ModelOf(body),
       messages |-> Arr(PayloadMessages(body)),
       temperature |-> Temperature])

MissingKey == Obj([error |-> S("Server misconfigured: missing OPENAI_API_KEY", 44)])
InvalidPayload == Obj([error |-> S("Invalid payload", 15), detail |-> Obj([flatten |-> Null])])
ServerError == Obj([error |-> S("Server error", 12)])

\* (faulty variant: the body is validated before the key is looked at)
ChatHandlerValidateFirst(r, key) ==
  LET h == [r EXCEPT !.reached = TRUE]
  IN IF ~SchemaAccepts(h.req.body) THEN Respond(h, 400, InvalidPayload)
     ELSE IF key = <<>> THEN Respond(h, 500, MissingKey)
     ELSE CallUpstream(h, BuildPayload(h.req.body))
\* the handler from its entry to the await on fetch: key check, validation, payload, fetch
ChatHandler(r, key) ==
  LET h == [r EXCEPT !.reached = TRUE]
  IN IF key = <<>> THEN Respond(h, 500, MissingKey)
     ELSE IF ~SchemaAccepts(h.req.body) THEN Respond(h, 400, InvalidPayload)
     ELSE CallUpstream(h, BuildPayload(h.req.body))

\* (faulty variant: the error is logged and nothing is sent)
CatchSilent(r) == [r EXCEPT !.pc = "done"]
\* catch (err): res.status(500).json({error: 'Server error'})
Catch(r) == Respond(r, 500, ServerError)

(***************************************************************************)
(* The awaits of the handler: fetch, r.text(), r.json().                   *)
(***************************************************************************)
Rejected == [t |-> "rejected"]
Settled(v) == [t |-> "settled", v |-> v]

\* r.ok
IsOk(status) == status >= 200 /\ status <= 299

\* (faulty variant: the last choice in place of the first)
ReplyLast(data) ==
  LET choices == Get(data, "choices")
      last == IF choices.t = "arr" /\ Len(choices.v) > 0 THEN choices.v[Len(choices.v)] ELSE Undef
      content == Get(Get(last, "message"), "content")
  IN IF Truthy(content) THEN content ELSE S("", 0)
\* data?.choices?.[0]?.message?.content || ''
Reply(data) ==
  LET content == Get(Get(First(Get(data, "choices")), "message"), "content")
  IN IF Truthy(content) THEN content ELSE S("", 0)

UpstreamError(text) == Obj([error |-> S("Upstream error", 14), detail |-> text])

\* (faulty variant: a fetch that threw is tried once more)
OnFetchRetry(r, out) ==
  IF out = Rejected
  THEN IF r.calls < 2 THEN CallUpstream(r, r.payload) ELSE Catch([r EXCEPT !.upBody = Rejected])
  ELSE IF ~IsOk(out.v) THEN [r EXCEPT !.pc = "text", !.upStatus = out.v]
  ELSE [r EXCEPT !.pc = "json", !.upStatus = out.v]
\* the await on fetch returns: out is Rejected (fetch threw) or Settled(status)
OnFetch(r, out) ==
  IF out = Rejected THEN Catch([r EXCEPT !.upBody = Rejected])
  ELSE IF ~IsOk(out.v) THEN [r EXCEPT !.pc = "text", !.upStatus = out.v]
  ELSE [r EXCEPT !.pc = "json", !.upStatus = out.v]

\* the await on r.text() returns: out is Rejected or Settled(text)
OnText(r, out) ==
  IF out = Rejected THEN Catch([r EXCEPT !.upBody = Rejected])
  ELSE Respond([r EXCEPT !.upBody = out.v], r.upStatus, UpstreamError(out.v))

\* the await on r.json() returns: out is Rejected (the body is no JSON) or Settled(data)
OnJson(r, out) ==
  IF out = Rejected THEN Catch([r EXCEPT !.upBody = Rejected])
  ELSE Respond([r EXCEPT !.upBody = out.v], 200, Obj([reply |-> Reply(out.v)]))

(***************************************************************************)
(* The middleware chain and the routes.                                    *)
(***************************************************************************)
ChatPath == <<"v1", "chat">>
HealthPath == <<"health">>

\* app.use('/v1/', limiter): the mount path is a prefix of the request's path
UnderV1(path) == Len(path) >= 1 /\ path[1] = "v1"

\* (faulty variant: one request too many is let through)
LimiterBlocksLate(total) == total > max + 1
\* the limiter rejects the request that makes the client's count exceed max
LimiterBlocks(total) == total > max

IsChat(req) == req.method = "POST" /\ req.path = ChatPath
IsHealth(req) == req.method = "GET" /\ req.path = HealthPath

CorsBlocked == [t |-> "html", v |-> "Error: CORS blocked"]
TooMany == S("Too many requests, please try again later.", 42)
Health == Obj([ok |-> [t |-> "bool", v |-> TRUE], service |-> S("nazpar-backend", 14)])
NotFound == [t |-> "html", v |-> "Cannot GET"]

\* the routes, in registration order; what matches none gets express's 404
Route(r, key) ==
  IF IsHealth(r.req) THEN Respond(r, 200, Health)
  ELSE IF IsChat(r.req) THEN ChatHandler(r, key)
  ELSE Respond(r, 404, NotFound)

\* A request of client c arrives on a free connection s and runs until its
\* response or its first await: cors, then the limiter under /v1/, then the routes.
Receive(s, c, req) ==
  /\ conn[s].pc \in {"idle", "done"}
  /\ LET r == Connect(req)
         total == hits[c] + 1
     IN IF ~CorsAllows(allowed, req.origin)
        THEN /\ conn' = [conn EXCEPT ![s] = Respond(r, 500, CorsBlocked)]
             /\ UNCHANGED <<hits, passed, called>>
        ELSE IF UnderV1(req.path)
        THEN /\ hits' = [hits EXCEPT ![c] = total]
             /\ IF LimiterBlocks(total)
                THEN /\ conn' = [conn EXCEPT ![s] = Respond(r, 429, TooMany)]
                     /\ UNCHANGED <<passed, called>>
                ELSE /\ conn' = [conn EXCEPT ![s] = Route(r, apiKey)]
                     /\ passed' = [passed EXCEPT ![c] = IF IsChat(req) THEN @ + 1 ELSE @]
                     /\ called' = [called EXCEPT ![c] = @ + Route(r, apiKey).calls]
        ELSE /\ conn' = [conn EXCEPT ![s] = Route(r, apiKey)]
             /\ UNCHANGED <<hits, passed, called>>
  /\ UNCHANGED <<apiKey, allowed>>

\* windowMs after the client's first counted request its count is dropped
WindowExpire(c) ==
  /\ hits[c] > 0
  /\ hits' = [hits EXCEPT ![c] = 0]
  /\ passed' = [passed EXCEPT ![c] = 0]
  /\ called' = [called EXCEPT ![c] = 0]
  /\ UNCHANGED <<apiKey, allowed, conn>>

FetchSettles(s, out) ==
  /\ conn[s].pc = "fetch"
  /\ conn' = [conn EXCEPT ![s] = OnFetch(conn[s], out)]
  /\ UNCHANGED <<apiKey, allowed, hits, passed, called>>

TextSettles(s, out) ==
  /\ conn[s].pc = "text"
  /\ conn' = [conn EXCEPT ![s] = OnText(conn[s], out)]
  /\ UNCHANGED <<apiKey, allowed, hits, passed, called>>

JsonSettles(s, out) ==
  /\ conn[s].pc = "json"
  /\ conn' = [conn EXCEPT ![s] = OnJson(conn[s], out)]
  /\ UNCHANGED <<apiKey, allowed, hits, passed, called>>

(***************************************************************************)
(* Inputs.                                                                 *)
(***************************************************************************)
Msg(role, content) == Obj([role |-> role, content |-> content])

mUser == Msg(S("user", 4), S("salam", 5))
mSystem == Msg(S("system", 6), S("ignore the rules", 16))
\* the longest content the schema takes, with a key the schema does not name
mLong == Obj([role |-> S("assistant", 9), content |-> S("x...x", MaxContent), name |-> S("bot", 3)])
mTool == Msg(S("tool", 4), S("salam", 5))
mEmpty == Msg(S("user", 4), S("", 0))
mTooLong == Msg(S("user", 4), S("x...xx", MaxContent + 1))
mNumber == Msg(S("user", 4), Num(7))

ValidBodies ==
  { Obj([messages |-> Arr(<<mUser>>)]),
    Obj([messages |-> Arr(<<mSystem, mUser>>), model |-> S("gpt-4", 5)]),
    Obj([messages |-> Arr(<<mUser, mLong>>), model |-> S("", 0), temperature |-> Num(2)]) }

InvalidBodies ==
  { Obj([model |-> S("gpt-4", 5)]),
    Obj([messages |-> Arr(<<>>)]),
    Obj([messages |-> Arr(<<mUser, mTool>>)]),
    Obj([messages |-> Arr(<<mEmpty>>)]),
    Obj([messages |-> Arr(<<mTooLong>>)]),
    Obj([messages |-> Arr(<<mNumber>>)]),
    Obj([messages |-> Arr(<<mUser>>), model |-> Num(4)]) }

Bodies == ValidBodies \cup InvalidBodies

Origins == {<<>>, <<"a">>, <<"x">>}

Req(method, path, origin, body) ==
  [method |-> method, path |-> path, origin |-> origin, body |-> body]

\* values of ALLOWED_ORIGINS: unset, separators only, two origins
AllowedValues == {<<>>, <<",", " ">>, <<" ", "a", ",", " ", "b", " ">>}
\* values of OPENAI_API_KEY: unset, set
KeyValues == {<<>>, <<"s", "k">>}

Choice(content) == Obj([index |-> Num(0), message |-> Obj([role |-> S("assistant", 9), content |-> content])])

dDorood == Obj([choices |-> Arr(<<Choice(S("dorood", 6))>>)])

Datas ==
  { Null,
    EmptyObj,
    Obj([choices |-> Arr(<<>>)]),
    Obj([choices |-> Arr(<<EmptyObj>>)]),
    Obj([choices |-> Arr(<<Obj([message |-> EmptyObj])>>)]),
    Obj([choices |-> Arr(<<Choice(Null)>>)]),
    Obj([choices |-> Arr(<<Choice(S("", 0))>>)]),
    dDorood,
    Obj([choices |-> Arr(<<Choice(S("bedrood", 7)), Choice(S("dorood", 6))>>)]) }

tQuota == S("quota exceeded", 14)
Texts == {S("", 0), tQuota}

Outcomes(values) == {Rejected} \cup {Settled(x) : x \in values}

(***************************************************************************)
(* Specifications.  One next-state relation over the sets of inputs: the   *)
(* clients and how many requests each sends under /v1/ in one window, the  *)
(* requests, and what the awaits on fetch, r.text() and r.json() return.   *)
(***************************************************************************)
InitOver(keys, raws) ==
  /\ apiKey \in keys
  /\ allowed \in {ParseAllowed(raw) : raw \in raws}
  /\ hits = [c \in Clients |-> 0]
  /\ passed = [c \in Clients |-> 0]
  /\ called = [c \in Clients |-> 0]
  /\ conn = [s \in Slots |-> Idle]

NextOver(cap, reqs, fetched, texts, jsons) ==
  \/ \E s \in Slots, c \in DOMAIN cap, req \in reqs :
       (UnderV1(req.path) => hits[c] < cap[c]) /\ Receive(s, c, req)
  \/ \E c \in Clients : WindowExpire(c)
  \/ \E s \in Slots, out \in fetched : FetchSettles(s, out)
  \/ \E s \in Slots, out \in texts : TextSettles(s, out)
  \/ \E s \in Slots, out \in jsons : JsonSettles(s, out)

\* Spec: every body, answered by the upstream in each of the three ways
Requests ==
  {Req("POST", ChatPath, <<>>, b) : b \in Bodies} \cup {Req("GET", HealthPath, <<>>, EmptyObj)}

Init == InitOver(KeyValues, {<<>>})

Next ==
  NextOver([c \in {"c1"} |-> MaxBurst], Requests,
           Outcomes({200, 429}), {Settled(tQuota)}, {Settled(dDorood), Settled(EmptyObj)})

Spec == Init /\ [][Next]_vars

bUser == Obj([messages |-> Arr(<<mUser>>)])
bNoMessages == Obj([model |-> S("gpt-4", 5)])

\* SpecUp: one valid body, every answer of the upstream
RequestsUp == {Req("POST", ChatPath, <<>>, bUser)}

NextUp ==
  NextOver([c \in {"c1"} |-> MaxBurst], RequestsUp,
           Outcomes({200, 429, 500}), Outcomes(Texts), Outcomes(Datas))

SpecUp == InitOver({<<"s", "k">>}, {<<>>}) /\ [][NextUp]_vars

\* SpecCors: every origin against every allow-list, on both routes and a path with no route
RequestsCors ==
  {Req("POST", ChatPath, o, bUser) : o \in Origins}
    \cup {Req("GET", HealthPath, o, EmptyObj) : o \in Origins}
    \cup {Req("GET", ChatPath, <<>>, EmptyObj)}

NextCors ==
  NextOver([c \in {"c1"} |-> MaxBurst], RequestsCors,
           {Settled(200), Settled(429)}, {Settled(tQuota)}, {Settled(dDorood)})

SpecCors == InitOver({<<"s", "k">>}, AllowedValues) /\ [][NextCors]_vars

\* SpecLimit: client c1 sends up to MaxOver requests more than the limiter lets
\* through in one window, next to a client that stays under the limit
RequestsLimit ==
  {Req("POST", ChatPath, o, bUser) : o \in {<<>>, <<"x">>}}
    \cup {Req("GET", HealthPath, <<>>, EmptyObj)}

NextLimit ==
  NextOver([c \in Clients |-> IF c = "c1" THEN max + MaxOver ELSE MaxBurst], RequestsLimit,
           {Settled(200), Settled(429)}, {Settled(tQuota)}, {Settled(dDorood)})

SpecLimit == InitOver({<<"s", "k">>}, {<<"a">>}) /\ [][NextLimit]_vars

\* SpecLive: every path of the handler, the upstream call and the reading of
\* its body always settling (they return or they throw)
RequestsLive ==
  {Req("POST", ChatPath, <<>>, b) : b \in {bUser, bNoMessages}}

NextLive ==
  NextOver([c \in {"c1"} |-> MaxBurst], RequestsLive,
           Outcomes({200, 429}), Outcomes({tQuota}), Outcomes({dDorood}))

Settling ==
  \A s \in Slots :
    /\ WF_vars(\E out \in Outcomes({200, 429}) : FetchSettles(s, out))
    /\ WF_vars(\E out \in Outcomes({tQuota}) : TextSettles(s, out))
    /\ WF_vars(\E out \in Outcomes({dDorood}) : JsonSettles(s, out))

SpecLive == InitOver(KeyValues, {<<>>}) /\ [][NextLive]_vars /\ Settling

(***************************************************************************)
(* Properties.                                                             *)
(***************************************************************************)
Awaiting(r) == r.pc \in {"fetch", "text", "json"}
Done(r) == r.pc = "done"
ErrorIs(r, text) == Get(r.res.body, "error").t = "str" /\ Get(r.res.body, "error").v = text
HasReply(r) == r.res.body.t = "obj" /\ "reply" \in DOMAIN r.res.body.f
BodyMessages(r) == Get(r.req.body, "messages").v
SentMessages(r) == Get(r.payload, "messages").v

\* C1: whenever a chat request has been forwarded, the forwarded messages are
\* the fixed system prompt at index 0 followed by the client's messages, none
\* dropped, in their order, each with the role and the content the client gave
\* (and nothing else), client messages of role system included.
C1_SystemPromptPrepended ==
  \A s \in Slots :
    conn[s].calls > 0 =>
      /\ Len(SentMessages(conn[s])) = Len(BodyMessages(conn[s])) + 1
      /\ SentMessages(conn[s])[1] =
           Obj([role |-> S("system", 6),
                content |-> S("You are Nazpar, a world-class Persian assistant for brand 'Javad&Yavar Design'. Be warm, concise, and helpful. Answer in Persian (fa) by default. If user requests code, return minimal, correct, production-ready code.", 216)])
      /\ \A i \in 1..Len(BodyMessages(conn[s])) :
           /\ DOMAIN SentMessages(conn[s])[i + 1].f = {"role", "content"}
           /\ Get(SentMessages(conn[s])[i + 1], "role") = Get(BodyMessages(conn[s])[i], "role")
           /\ Get(SentMessages(conn[s])[i + 1], "content") = Get(BodyMessages(conn[s])[i], "content")

\* a forwarded conversation that opens with a system message of the client
C1_Witness ==
  \E s \in Slots :
    /\ conn[s].calls > 0
    /\ Get(BodyMessages(conn[s])[1], "role") = S("system", 6)
    /\ Len(SentMessages(conn[s])) = 3

\* the bodies the claim C2 calls invalid: messages missing or empty, a role
\* outside {system, user, assistant}, a content that is no string of 1 to 8000
\* characters, a model that is no string
FailsSchema(body) ==
  LET messages == Get(body, "messages")
      model == Get(body, "model")
  IN \/ messages.t # "arr"
     \/ Len(messages.v) = 0
     \/ \E i \in 1..Len(messages.v) :
          LET role == Get(messages.v[i], "role")
              content == Get(messages.v[i], "content")
          IN \/ role \notin {S("system", 6), S("user", 4), S("assistant", 9)}
             \/ content.t # "str"
             \/ content.len < 1
             \/ content.len > 8000
     \/ model.t \notin {"undefined", "str"}

\* C2 as stated: every chat request whose body fails the schema is answered
\* 400 'Invalid payload' and causes no upstream call.
C2_InvalidAlways400 ==
  \A s \in Slots :
    Done(conn[s]) /\ IsChat(conn[s].req) /\ FailsSchema(conn[s].req.body) =>
      /\ conn[s].res.status = 400
      /\ ErrorIs(conn[s], "Invalid payload")
      /\ conn[s].calls = 0

\* C2, amended: with OPENAI_API_KEY set, a chat request that reaches the
\* handler with a body failing the schema is answered 400 'Invalid payload';
\* with or without the key no upstream call is issued for such a body, so a
\* call is issued only for a body that passed validation.
C2_ValidationPrecedesForwarding ==
  \A s \in Slots :
    /\ conn[s].reached /\ apiKey # <<>> /\ FailsSchema(conn[s].req.body) =>
         /\ Done(conn[s])
         /\ conn[s].res.status = 400
         /\ ErrorIs(conn[s], "Invalid payload")
    /\ conn[s].reached /\ FailsSchema(conn[s].req.body) => conn[s].calls = 0
    /\ conn[s].calls > 0 => ~FailsSchema(conn[s].req.body)

\* a content of 8001 characters answered 400
C2_Witness ==
  \E s \in Slots :
    /\ conn[s].reached
    /\ conn[s].req.body = Obj([messages |-> Arr(<<mTooLong>>)])
    /\ conn[s].res.status = 400
    /\ conn[s].calls = 0

\* C7: requests do not influence one another: two connections whose requests
\* have the same body were sent upstream with the same payload, and when the
\* upstream also answered them alike they got the same response, whatever
\* else was handled before or meanwhile.
C7_NoCrossTalk ==
  \A s, u \in Slots :
    conn[s].reached /\ conn[u].reached /\ conn[s].req.body = conn[u].req.body =>
      /\ conn[s].calls > 0 /\ conn[u].calls > 0 => conn[s].payload = conn[u].payload
      /\ Done(conn[s]) /\ Done(conn[u])
           /\ conn[s].upStatus = conn[u].upStatus /\ conn[s].upBody = conn[u].upBody
           => conn[s].res = conn[u].res

\* two connections with the same body and the same upstream answer, both
\* answered with its reply
C7_Witness ==
  \E s, u \in Slots :
    /\ s # u
    /\ conn[s].calls > 0 /\ conn[u].calls > 0
    /\ conn[s].req.body = conn[u].req.body
    /\ Done(conn[s]) /\ Done(conn[u])
    /\ conn[s].upBody = dDorood /\ conn[u].upBody = dDorood
    /\ HasReply(conn[s])

\* C8: the forwarded model is the client's model when that is a non-empty
\* string and 'gpt-4o-mini' when it is absent or empty; the forwarded
\* temperature is 0.6.
C8_ModelSelection ==
  \A s \in Slots :
    conn[s].calls > 0 =>
      LET given == Get(conn[s].req.body, "model")
      IN /\ given.t = "str" /\ given.len > 0 => Get(conn[s].payload, "model") = given
         /\ given.t = "undefined" \/ (given.t = "str" /\ given.len = 0) =>
              Get(conn[s].payload, "model") = S("gpt-4o-mini", 11)
         /\ Get(conn[s].payload, "temperature") = Dec(6, 1)

\* a forwarded request whose model was the empty string and whose body named a temperature
C8_Witness ==
  \E s \in Slots :
    /\ conn[s].calls > 0
    /\ Get(conn[s].req.body, "model") = S("", 0)
    /\ Get(conn[s].req.body, "temperature") = Num(2)
    /\ Get(conn[s].payload, "model") = S("gpt-4o-mini", 11)

\* C10: with OPENAI_API_KEY unset, every chat request that reaches the handler
\* is answered 500 'Server misconfigured: missing OPENAI_API_KEY', its body
\* valid or not, and no upstream call is made.
C10_KeyCheckFirst ==
  \A s \in Slots :
    conn[s].reached /\ apiKey = <<>> =>
      /\ Done(conn[s])
      /\ conn[s].res.status = 500
      /\ ErrorIs(conn[s], "Server misconfigured: missing OPENAI_API_KEY")
      /\ conn[s].calls = 0

\* an invalid body answered 500 for the missing key
C10_Witness ==
  \E s \in Slots :
    /\ conn[s].reached
    /\ apiKey = <<>>
    /\ FailsSchema(conn[s].req.body)
    /\ conn[s].res.status = 500

\* C3: a request causes at most one upstream call; once the upstream has
\* answered with a non-OK status or the call or the reading of its body has
\* thrown, the response is an error and the call count is still one.
C3_NoRetry ==
  \A s \in Slots :
    /\ conn[s].calls <= 1
    /\ Awaiting(conn[s]) => conn[s].calls = 1
    /\ Done(conn[s]) /\ (conn[s].upBody = Rejected \/ (conn[s].upStatus # 0 /\ ~IsOk(conn[s].upStatus))) =>
         /\ conn[s].calls = 1
         /\ Get(conn[s].res.body, "error").t = "str"
         /\ ~HasReply(conn[s])

\* a request answered 500 after its fetch threw, one call made
C3_Witness ==
  \E s \in Slots :
    /\ Done(conn[s])
    /\ conn[s].upBody = Rejected
    /\ conn[s].upStatus = 0
    /\ conn[s].calls = 1
    /\ conn[s].res.status = 500

\* the reply the claim C6 names: the content of the first choice's message,
\* the empty string when choices, the first choice, its message or its
\* content is absent or empty
NamedReply(data) ==
  LET choices == Get(data, "choices")
      present ==
        /\ choices.t = "arr" /\ Len(choices.v) > 0
        /\ Get(Get(choices.v[1], "message"), "content").t = "str"
        /\ Get(Get(choices.v[1], "message"), "content").len > 0
  IN IF present THEN Get(Get(choices.v[1], "message"), "content") ELSE S("", 0)

\* C6 as stated: an upstream OK status gives the client 200 and only the
\* reply; a non-OK status gives the client that status, 'Upstream error' and
\* the upstream text.
C6_StatusDecidesResponse ==
  \A s \in Slots :
    Done(conn[s]) /\ conn[s].upStatus # 0 =>
      IF IsOk(conn[s].upStatus)
      THEN conn[s].res.status = 200 /\ HasReply(conn[s])
      ELSE conn[s].res.status = conn[s].upStatus /\ ErrorIs(conn[s], "Upstream error")

\* C6, amended: when the upstream returns an OK status and its body parses as
\* JSON, the client receives 200 and a body holding only reply, the content of
\* the first choice's message or the empty string when choices, the first
\* choice, its message or its content is absent, null or empty; when the
\* upstream returns a non-OK status and its body text is read, the client
\* receives that status, error 'Upstream error', the text as detail and no
\* reply; when reading or parsing the body throws, the client receives 500
\* 'Server error'.
C6_ResponseNormalization ==
  \A s \in Slots :
    Done(conn[s]) /\ conn[s].upStatus # 0 =>
      IF conn[s].upBody = Rejected
      THEN /\ conn[s].res.status = 500
           /\ conn[s].res.body = Obj([error |-> S("Server error", 12)])
      ELSE IF IsOk(conn[s].upStatus)
      THEN /\ conn[s].res.status = 200
           /\ conn[s].res.body = Obj([reply |-> NamedReply(conn[s].upBody)])
      ELSE /\ conn[s].res.status = conn[s].upStatus
           /\ conn[s].res.body = Obj([error |-> S("Upstream error", 14), detail |-> conn[s].upBody])

\* two choices came back and the first one's content is the reply
C6_Witness ==
  \E s \in Slots :
    /\ Done(conn[s])
    /\ conn[s].upStatus = 200
    /\ conn[s].upBody = Obj([choices |-> Arr(<<Choice(S("bedrood", 7)), Choice(S("dorood", 6))>>)])
    /\ conn[s].res = [status |-> 200, body |-> Obj([reply |-> S("bedrood", 7)])]

Listed(origin) == \E i \in 1..Len(allowed) : allowed[i] = origin
BlockedByCors(r) == Done(r) /\ r.res = [status |-> 500, body |-> CorsBlocked] /\ ~r.reached /\ r.calls = 0

\* C5 as stated: a request with an Origin that is not in the allow-list is
\* rejected by the CORS check, reaches no handler and causes no upstream call.
C5_OnlyListedOrigins ==
  \A s \in Slots :
    conn[s].req # None /\ conn[s].req.origin # <<>> /\ ~Listed(conn[s].req.origin) =>
      BlockedByCors(conn[s])

\* C5, amended: when the allow-list is not empty, a request with an Origin
\* that is not in it is rejected by the CORS check, reaches no handler and
\* causes no upstream call, and a request with a listed Origin is let
\* through; when the allow-list is empty (ALLOWED_ORIGINS unset or naming no
\* origin) a request with any Origin is let through.
C5_OriginRestriction ==
  \A s \in Slots :
    conn[s].req # None /\ conn[s].req.origin # <<>> =>
      IF Len(allowed) > 0 /\ ~Listed(conn[s].req.origin)
      THEN BlockedByCors(conn[s])
      ELSE /\ conn[s].res # [status |-> 500, body |-> CorsBlocked]
           /\ IsChat(conn[s].req) => conn[s].reached

\* an unlisted origin turned away by a server that has an allow-list
C5_Witness ==
  \E s \in Slots :
    /\ Len(allowed) = 2
    /\ conn[s].req # None
    /\ conn[s].req.origin = <<"x">>
    /\ IsChat(conn[s].req)
    /\ BlockedByCors(conn[s])

LimitedResponse == [status |-> 429, body |-> S("Too many requests, please try again later.", 42)]

\* C4: per client and window at most 60 requests enter the chat handler and
\* at most 60 upstream calls are made, none without an entry into the handler; a
\* request counted beyond 60 is answered by the limiter and enters no handler,
\* and one counted up to 60 is not answered by the limiter; when the window
\* expires the count is zero again; a request to /health changes no count and
\* is never answered by the limiter.
C4_FixedWindow ==
  /\ [](\A c \in Clients : passed[c] <= 60 /\ passed[c] <= hits[c])
  /\ [](\A c \in Clients : called[c] <= 60 /\ called[c] <= passed[c])
  /\ [](\A s \in Slots : Done(conn[s]) /\ conn[s].res = LimitedResponse =>
          ~conn[s].reached /\ conn[s].calls = 0 /\ UnderV1(conn[s].req.path))
  /\ [][\A c \in Clients :
          hits'[c] < hits[c] => hits'[c] = 0 /\ passed'[c] = 0 /\ called'[c] = 0]_vars
  /\ [][\A c \in Clients : hits'[c] > hits[c] =>
          /\ hits'[c] = hits[c] + 1
          /\ IF hits[c] >= 60
             THEN /\ passed'[c] = passed[c]
                  /\ \A s \in Slots : conn'[s] # conn[s] => conn'[s].res = LimitedResponse
             ELSE \A s \in Slots : conn'[s] # conn[s] => conn'[s].res # LimitedResponse]_vars
  /\ [][\A s \in Slots :
          conn'[s] # conn[s] /\ ~Awaiting(conn[s]) /\ IsHealth(conn'[s].req) =>
            hits' = hits /\ conn'[s].res # LimitedResponse]_vars

\* client c1 was turned away in one window and is served in the next
C4_Witness ==
  \E s, u \in Slots :
    /\ conn[s].res = LimitedResponse
    /\ conn[u].reached /\ Awaiting(conn[u])
    /\ hits["c1"] = 1 /\ passed["c1"] = 1 /\ called["c1"] = 1
    /\ hits["c2"] = 0

\* the one response each path of the handler sends
PathResponse(r) ==
  IF apiKey = <<>> THEN r.res.status = 500 /\ ErrorIs(r, "Server misconfigured: missing OPENAI_API_KEY")
  ELSE IF FailsSchema(r.req.body) THEN r.res.status = 400 /\ ErrorIs(r, "Invalid payload")
  ELSE IF r.upBody = Rejected THEN r.res.status = 500 /\ ErrorIs(r, "Server error")
  ELSE IF IsOk(r.upStatus) THEN r.res.status = 200 /\ HasReply(r)
  ELSE r.res.status = r.upStatus /\ ErrorIs(r, "Upstream error")

\* C9: a chat request that reached the handler has no response while the
\* handler awaits the upstream and exactly one once the handler is done, the
\* one of its path (missing key 500, invalid payload 400, upstream status,
\* 200, or 500 'Server error' after a throw); and as the upstream call and the
\* reading of its body always settle, a handler that awaits ends up done.
C9_ExactlyOneResponse ==
  /\ [](\A s \in Slots :
          conn[s].reached =>
            /\ conn[s].sent <= 1
            /\ Awaiting(conn[s]) \/ Done(conn[s])
            /\ Awaiting(conn[s]) => conn[s].sent = 0 /\ conn[s].res = None
            /\ Done(conn[s]) => conn[s].sent = 1 /\ PathResponse(conn[s]))
  /\ \A s \in Slots : (conn[s].reached /\ Awaiting(conn[s])) ~> Done(conn[s])

\* a parse error of an OK upstream body answered once, with 500 'Server error'
C9_Witness ==
  \E s \in Slots :
    /\ conn[s].reached
    /\ Done(conn[s])
    /\ conn[s].upStatus = 200
    /\ conn[s].upBody = Rejected
    /\ conn[s].sent = 1
    /\ conn[s].res = [status |-> 500, body |-> Obj([error |-> S("Server error", 12)])]

====
